---- MODULE Spec2Model ----
(***************************************************************************)
(* Pattern Memory Engine of the autofill AI service.                       *)
(*                                                                         *)
(* Modelled from src/ai-service/pattern_service.py (search_pattern,        *)
(* save_pattern), src/ai-service/app.py (predict, upload_pattern,          *)
(* save_user_data), src/resume_service.py (save_user_profile) and          *)
(* src/ai-service/supabase_client.py (insert / upsert / execute).          *)
(*                                                                         *)
(* Text is a sequence of one-character strings, so that lower(), strip()   *)
(* and split() are computed and not assumed.  Every store round trip of a  *)
(* handler is one step, so concurrent requests interleave exactly at the   *)
(* HTTP calls to the database.                                             *)
(***************************************************************************)
EXTENDS Integers, Sequences, FiniteSets, TLC

\* ------------------------------------------------------------------ bounds

\* Requests (upload or predict) started in one run.
MaxCalls == 2

\* Rows of global_patterns, and of learned_patterns, in a store the matcher
\* is run against.
MaxGlobal == 2

MaxPrivate == 2

\* Rows of feedbacks in a store the statistics are run against.
MaxFeedback == 2

\* ------------------------------------------------------------------- text

\* Python None for an Optional[str]; not a text over the alphabet.
None == <<"<None>">>

\* `if not user_email` / `if user_email`: None and "" are falsy.
Truthy(s) == s # None /\ s # <<>>

\* str.isspace for the characters of the model's alphabet.
IsSpace(c) == c \in {" ", "\t"}

UpperToLower == [A |-> "a", B |-> "b", Q |-> "q", R |-> "r"]

LowerChar(c) == IF c \in DOMAIN UpperToLower THEN UpperToLower[c] ELSE c

\* str.lower()
RECURSIVE Lower(_)
Lower(s) == IF s = <<>> THEN <<>> ELSE <<LowerChar(Head(s))>> \o Lower(Tail(s))

\* str.strip(): drop leading and trailing whitespace.
RECURSIVE LStrip(_)
LStrip(s) == IF s # <<>> /\ IsSpace(Head(s)) THEN LStrip(Tail(s)) ELSE s

RECURSIVE RStrip(_)
RStrip(s) ==
  IF s # <<>> /\ IsSpace(s[Len(s)]) THEN RStrip(SubSeq(s, 1, Len(s) - 1)) ELSE s

Strip(s) == RStrip(LStrip(s))

\* Mutant of Normalize: the strip() is forgotten.
Normalize_LowerOnly(s) == Lower(s)

\* Mutant of Normalize: strip() removes one character from each end only.
Normalize_TrimOne(s) ==
  LET l == Lower(s)
      a == IF l # <<>> /\ IsSpace(Head(l)) THEN Tail(l) ELSE l
  IN IF a # <<>> /\ IsSpace(a[Len(a)]) THEN SubSeq(a, 1, Len(a) - 1) ELSE a

\* question.lower().strip()
Normalize(s) == Strip(Lower(s))

\* str.split(): the whitespace-delimited words, in order.
RECURSIVE SplitAcc(_, _, _)
SplitAcc(s, cur, acc) ==
  IF s = <<>> THEN (IF cur = <<>> THEN acc ELSE Append(acc, cur))
  ELSE IF IsSpace(Head(s))
       THEN SplitAcc(Tail(s), <<>>, IF cur = <<>> THEN acc ELSE Append(acc, cur))
       ELSE SplitAcc(Tail(s), Append(cur, Head(s)), acc)

Split(s) == SplitAcc(s, <<>>, <<>>)

\* set(text.split())
WordSet(s) == LET words == Split(s) IN {words[i] : i \in 1..Len(words)}

Max2(a, b) == IF a >= b THEN a ELSE b

\* ------------------------------------------------------------ input sets

\* Owners that may own private patterns and profiles.
Owners == {<<"a">>, <<"b">>}

\* The userEmail / email argument of a request: an owner, "" or absent.
EmailArgs == Owners \cup {<<>>, None}

\* Question texts as clients send them; the first two normalise to "q".
RawQuestions == {<<"Q">>, <<"q", " ">>, <<"r">>}

Intents == {<<"i">>, <<"j">>}

\* One entry of answerMappings.
Mapping(canonical, vars) ==
  [canonicalValue |-> canonical, variants |-> vars, contextOptions |-> <<>>]

\* (confidence in hundredths, answerMappings) of uploaded patterns.
UploadPayloads ==
  { <<70, <<Mapping(<<"x">>, <<<<"x">>>>)>>>>,
    <<95, <<Mapping(<<"y">>, <<<<"y">>, <<"z">>>>)>>>>,
    <<95, <<>>>> }

\* models.Pattern as the upload endpoint receives it.
UploadPatterns ==
  { [questionPattern |-> q, intent |-> i, confidence |-> pl[1],
     answerMappings |-> pl[2]] :
      q \in RawQuestions, i \in Intents, pl \in UploadPayloads }

\* ------------------------------------------------------------------ store

NoError == "none"
FkError == "violates foreign key constraint"
DupError == "duplicate key value violates unique constraint"
NetError == "connection error"

\* What the database service does with one request: it answers ("ok"), or the
\* request fails in transit and is not applied ("fault", execute's except).
Outcomes == {"ok", "fault"}

\* hashlib.md5(key).hexdigest()[:12]: the digest is modelled as a
\* collision-free token of the key it digests.
Md5Hex12(key) == <<"#">> \o key

\* Mutant of DeterministicKey: the owner is left out of the key.
DeterministicKey_NoOwner(user_email, normalized_question, intent) ==
  normalized_question \o <<":">> \o intent

\* f"{user_email}:{normalized_question}:{intent}"
DeterministicKey(user_email, normalized_question, intent) ==
  user_email \o <<":">> \o normalized_question \o <<":">> \o intent

PatternId(user_email, normalized_question, intent) ==
  <<"pattern_">> \o Md5Hex12(DeterministicKey(user_email, normalized_question, intent))

\* Mutant of DbData: the question is stored as it was sent.
DbData_RawQuestion(pattern, user_email) ==
  [id |-> PatternId(user_email, Normalize(pattern.questionPattern), pattern.intent),
   user_email |-> user_email,
   question_pattern |-> pattern.questionPattern,
   intent |-> pattern.intent,
   confidence |-> pattern.confidence,
   answer_mappings |-> pattern.answerMappings]

\* db_data of save_pattern.
DbData(pattern, user_email) ==
  LET normalized_question == Normalize(pattern.questionPattern)
  IN [id |-> PatternId(user_email, normalized_question, pattern.intent),
      user_email |-> user_email,
      question_pattern |-> normalized_question,
      intent |-> pattern.intent,
      confidence |-> pattern.confidence,
      answer_mappings |-> pattern.answerMappings]

\* 'last_used': datetime.now().isoformat() of db_data.  The clock reads the
\* number of the request, so that a later request carries a later stamp.
Stamped(row, now) ==
  [id |-> row.id, user_email |-> row.user_email,
   question_pattern |-> row.question_pattern, intent |-> row.intent,
   confidence |-> row.confidence, answer_mappings |-> row.answer_mappings,
   last_used |-> now]

NoRow ==
  [id |-> <<>>, user_email |-> None, question_pattern |-> <<>>, intent |-> <<>>,
   confidence |-> 0, answer_mappings |-> <<>>, last_used |-> 0]

\* GET learned_patterns?user_email=eq.E : the owner's rows, in table order.
SelectByOwner(tbl, user_email) ==
  LET Test(r) == r.user_email = user_email IN SelectSeq(tbl, Test)

\* GET learned_patterns?select=id&user_email=eq.E&question_pattern=eq.Q
SelectByOwnerQuestion(tbl, user_email, normalized_question) ==
  LET Test(r) == r.user_email = user_email /\ r.question_pattern = normalized_question
  IN SelectSeq(tbl, Test)

HasId(tbl, id) == \E k \in 1..Len(tbl) : tbl[k].id = id

\* The foreign key learned_patterns.user_email -> user_profiles.email.
HasProfile(prof, email) == email \in DOMAIN prof /\ prof[email] # "absent"

\* POST learned_patterns (insert): the primary key id must be new and the
\* owner must have a row in user_profiles.
DbInsert(tbl, prof, row, out) ==
  IF out = "fault" THEN [error |-> NetError, table |-> tbl]
  ELSE IF HasId(tbl, row.id) THEN [error |-> DupError, table |-> tbl]
  ELSE IF ~HasProfile(prof, row.user_email) THEN [error |-> FkError, table |-> tbl]
  ELSE [error |-> NoError, table |-> Append(tbl, row)]

\* POST learned_patterns with Prefer: resolution=merge-duplicates (upsert):
\* a row with the same id is replaced in place, otherwise the row is added.
DbUpsert(tbl, prof, row, out) ==
  IF out = "fault" THEN [error |-> NetError, table |-> tbl]
  ELSE IF ~HasProfile(prof, row.user_email) THEN [error |-> FkError, table |-> tbl]
  ELSE IF HasId(tbl, row.id)
       THEN [error |-> NoError,
             table |-> [k \in 1..Len(tbl) |-> IF tbl[k].id = row.id THEN row ELSE tbl[k]]]
       ELSE [error |-> NoError, table |-> Append(tbl, row)]

\* Mutant of IsForeignKeyError: every error is taken for a foreign key error.
IsForeignKeyError_AnyError(error) == error # NoError

\* 'violates foreign key constraint' in str(result.error)
IsForeignKeyError(error) == error = FkError

\* ---------------------------------------------------------------- matcher

\* The dict search_pattern returns for a row.
ToExtension(p) ==
  [id |-> p.id, questionPattern |-> p.question_pattern, intent |-> p.intent,
   answerMappings |-> p.answer_mappings]

\* The private loop of search_pattern: first row whose text equals the query.
RECURSIVE ScanPrivate(_, _)
ScanPrivate(rows, question_lower) ==
  IF rows = <<>> THEN <<>>
  ELSE IF Normalize(Head(rows).question_pattern) = question_lower
       THEN <<ToExtension(Head(rows))>>
       ELSE ScanPrivate(Tail(rows), question_lower)

\* Mutant of FuzzyMatch: the threshold itself no longer matches (> for >=).
FuzzyMatch_Strict(question_lower, pattern_question, thr) ==
  LET q_words == WordSet(question_lower)
      p_words == WordSet(pattern_question)
  IN /\ Cardinality(q_words) > 0
     /\ Cardinality(p_words) > 0
     /\ Cardinality(q_words \cap p_words) * 100
          > thr * Max2(Cardinality(q_words), Cardinality(p_words))

\* similarity >= config.FUZZY_MATCH_THRESHOLD, the threshold in hundredths.
FuzzyMatch(question_lower, pattern_question, thr) ==
  LET q_words == WordSet(question_lower)
      p_words == WordSet(pattern_question)
  IN /\ Cardinality(q_words) > 0
     /\ Cardinality(p_words) > 0
     /\ Cardinality(q_words \cap p_words) * 100
          >= thr * Max2(Cardinality(q_words), Cardinality(p_words))

\* The global loop of search_pattern: per row, exact match, then fuzzy match.
RECURSIVE ScanGlobal(_, _, _)
ScanGlobal(patterns, question_lower, thr) ==
  IF patterns = <<>> THEN <<>>
  ELSE LET pattern_question == Normalize(Head(patterns).question_pattern)
       IN IF pattern_question = question_lower
          THEN <<ToExtension(Head(patterns))>>
          ELSE IF FuzzyMatch(question_lower, pattern_question, thr)
               THEN <<ToExtension(Head(patterns))>>
               ELSE ScanGlobal(Tail(patterns), question_lower, thr)

\* read_patterns(): all global rows, [] when the read fails.
ReadPatterns(glob, globOut) == IF globOut = "ok" THEN glob ELSE <<>>

\* Mutant of SearchPattern: the global table is scanned before the owner's
\* private patterns.
SearchPattern_GlobalFirst(question, user_email, tbl, glob, thr, privOut, globOut) ==
  LET question_lower == Normalize(question)
      global == ScanGlobal(ReadPatterns(glob, globOut), question_lower, thr)
  IN IF global # <<>> THEN global
     ELSE IF Truthy(user_email) /\ privOut = "ok"
          THEN ScanPrivate(SelectByOwner(tbl, user_email), question_lower)
          ELSE <<>>

\* search_pattern(question, user_email): <<>> is None, <<m>> a match.
SearchPattern(question, user_email, tbl, glob, thr, privOut, globOut) ==
  LET question_lower == Normalize(question)
      private == IF Truthy(user_email) /\ privOut = "ok"
                 THEN ScanPrivate(SelectByOwner(tbl, user_email), question_lower)
                 ELSE <<>>
  IN IF private # <<>> THEN private
     ELSE ScanGlobal(ReadPatterns(glob, globOut), question_lower, thr)

\* ---------------------------------------------------------------- learner

Unknown == <<"u", "n", "k", "n", "o", "w", "n">>

\* What predict_answer gives back: it raises, or an AIResponse (confidence in
\* hundredths; intent None when the predictor supplied none).
AiOutcomes ==
  { [raised |-> TRUE, answer |-> <<>>, confidence |-> 0, intent |-> None],
    [raised |-> FALSE, answer |-> <<"x">>, confidence |-> 70, intent |-> <<"i">>],
    [raised |-> FALSE, answer |-> <<"x">>, confidence |-> 69, intent |-> <<"i">>],
    [raised |-> FALSE, answer |-> <<>>, confidence |-> 70, intent |-> <<"i">>],
    [raised |-> FALSE, answer |-> <<"y">>, confidence |-> 95, intent |-> None] }

\* Mutant of ShouldLearn: a confidence of exactly 0.70 is not learned.
ShouldLearn_Strict(answer, confidence) == answer # <<>> /\ confidence > 70

\* `if ai_response.answer and ai_response.confidence >= 0.70`
ShouldLearn(answer, confidence) == answer # <<>> /\ confidence >= 70

\* `if not ai_response.intent: ai_response.intent = "unknown"`
FixIntent(intent) == IF Truthy(intent) THEN intent ELSE Unknown

\* Pattern(questionPattern=request.question.lower().strip(), ...)
BuildPattern(question, answer, intent, confidence) ==
  [questionPattern |-> Normalize(question), intent |-> intent,
   confidence |-> confidence,
   answerMappings |-> <<Mapping(answer, <<answer>>)>>]

\* The answer predict reads from a matched pattern.
MemoryAnswer(match) ==
  LET mappings == match.answerMappings
  IN IF mappings = <<>> THEN <<>>
     ELSE IF mappings[1].variants # <<>> THEN mappings[1].variants[1]
          ELSE mappings[1].canonicalValue

\* ------------------------------------------------------------------ state

Workers == {1, 2}

VARIABLES
  learned,     \* table learned_patterns, in table order
  profiles,    \* table user_profiles: owner -> "absent" | "stub" | "full"
  globals,     \* table global_patterns, in table order
  threshold,   \* config.FUZZY_MATCH_THRESHOLD, in hundredths
  call,        \* per worker: the request it serves and where it stands
  started,     \* requests started so far
  lastIssued,  \* the worker that issued the latest write to learned_patterns
  lastSearch,  \* the latest search_pattern call and its result
  lastStats    \* the latest statistics call, the store's replies and its result

vars == <<learned, profiles, globals, threshold, call, started, lastIssued, lastSearch, lastStats>>

NoPattern ==
  [questionPattern |-> <<>>, intent |-> <<>>, confidence |-> 0, answerMappings |-> <<>>]

NoResponse == [source |-> "none"]

IdleCall ==
  [pc |-> "idle", op |-> "none", email |-> None, question |-> <<>>,
   pattern |-> NoPattern, db |-> NoRow, writeKind |-> "none",
   error |-> NoError, firstError |-> NoError, ret |-> "none",
   lookups |-> 0, patternWrites |-> 0, profileWrites |-> 0, saveCalls |-> 0,
   aiCalled |-> FALSE, privateHit |-> FALSE, memory_match |-> <<>>,
   response |-> NoResponse]

NoSearch ==
  [ran |-> FALSE, question |-> <<>>, user_email |-> None, privOut |-> "ok",
   globOut |-> "ok", result |-> <<>>]

NoStats ==
  [ran |-> FALSE, op |-> "none", replies |-> <<>>,
   result |-> [total |-> 0, recent_24h |-> 0]]

GlobalRow(id, question, intent, mappings) ==
  [id |-> id, question_pattern |-> question, intent |-> intent,
   answer_mappings |-> mappings]

\* Contents of global_patterns the service may run against.
GlobalTables ==
  { <<>>,
    <<GlobalRow(<<"g", "1">>, <<"r">>, <<"i">>, <<Mapping(<<"w">>, <<>>)>>)>> }

Init ==
  /\ learned = <<>>
  /\ profiles = [o \in Owners |-> "absent"]
  /\ globals \in GlobalTables
  /\ threshold = 50
  /\ call = [w \in Workers |-> IdleCall]
  /\ started = 0
  /\ lastIssued = 0
  /\ lastSearch = NoSearch
  /\ lastStats = NoStats

\* ------------------------------------------------------------ save_pattern

\* The upload endpoint's reply to save_pattern's result.
UploadResponse(success) ==
  IF success THEN [source |-> "upload", success |-> TRUE]
  ELSE [source |-> "upload", success |-> FALSE]

\* Mutant of Return: predict answers with an error when the save failed.
Return_PropagateError(c, error) ==
  [c EXCEPT !.pc = "done",
            !.error = error,
            !.ret = IF error # NoError THEN "False" ELSE "True",
            !.response = IF c.op = "upload" THEN UploadResponse(error = NoError)
                         ELSE IF error # NoError THEN [source |-> "error"]
                         ELSE c.response]

\* save_pattern returns: False when result.error is set, True otherwise; the
\* upload endpoint answers with it, predict answers with ai_response.
Return(c, error) ==
  [c EXCEPT !.pc = "done",
            !.error = error,
            !.ret = IF error # NoError THEN "False" ELSE "True",
            !.response = IF c.op = "upload" THEN UploadResponse(error = NoError)
                         ELSE c.response]

\* Mutant of SavePattern: the owner check is missing.
SavePattern_NoOwnerCheck(c, pattern, user_email) ==
  [c EXCEPT !.pc = "lookup",
            !.pattern = pattern,
            !.db = Stamped(DbData(pattern, user_email), started + 1),
            !.saveCalls = c.saveCalls + 1]

\* Entry of save_pattern: reject a missing owner, else build db_data.
SavePattern(c, pattern, user_email) ==
  IF ~Truthy(user_email)
  THEN [Return(c, NoError) EXCEPT !.ret = "False",
                                  !.saveCalls = c.saveCalls + 1,
                                  !.response = IF c.op = "upload"
                                               THEN UploadResponse(FALSE)
                                               ELSE c.response]
  ELSE [c EXCEPT !.pc = "lookup",
                 !.pattern = pattern,
                 !.db = Stamped(DbData(pattern, user_email), started + 1),
                 !.saveCalls = c.saveCalls + 1]

NewCall(op, question, email) ==
  [IdleCall EXCEPT !.op = op, !.question = question, !.email = email]

CanStart(w) == call[w].pc \in {"idle", "done"} /\ started < MaxCalls

\* POST /api/patterns/upload?email=...
UploadStart(w, pattern, email) ==
  /\ CanStart(w)
  /\ call' = [call EXCEPT ![w] =
       SavePattern([NewCall("upload", pattern.questionPattern, email)
                      EXCEPT !.pattern = pattern], pattern, email)]
  /\ started' = started + 1
  /\ UNCHANGED <<learned, profiles, globals, threshold, lastIssued, lastSearch, lastStats>>

\* Mutant of AfterLookup: the found row is ignored and the row is inserted.
AfterLookup_AlwaysInsert(c, existing) ==
  [c EXCEPT !.pc = "write", !.writeKind = "insert", !.lookups = c.lookups + 1]

\* `if existing.data and len(existing.data) > 0`: reuse the found id and
\* upsert, else insert under the computed id.  A failed read has no data.
AfterLookup(c, existing) ==
  IF existing # <<>>
  THEN [c EXCEPT !.pc = "write", !.writeKind = "upsert",
                 !.db = [c.db EXCEPT !.id = existing[1].id],
                 !.lookups = c.lookups + 1]
  ELSE [c EXCEPT !.pc = "write", !.writeKind = "insert",
                 !.lookups = c.lookups + 1]

\* The existence lookup of save_pattern.
LookupExisting(w, out) ==
  /\ call[w].pc = "lookup"
  /\ LET c == call[w]
         existing == IF out = "ok"
                     THEN SelectByOwnerQuestion(learned, c.db.user_email,
                                                c.db.question_pattern)
                     ELSE <<>>
     IN call' = [call EXCEPT ![w] = AfterLookup(c, existing)]
  /\ UNCHANGED <<learned, profiles, globals, threshold, started, lastIssued, lastSearch, lastStats>>

\* After the first write: a foreign key error goes to the self-heal, any
\* other result returns.
AfterWrite(c, error) ==
  IF IsForeignKeyError(error)
  THEN [c EXCEPT !.pc = "heal", !.error = error, !.firstError = error,
                 !.patternWrites = c.patternWrites + 1]
  ELSE [Return(c, error) EXCEPT !.firstError = error,
                                !.patternWrites = c.patternWrites + 1]

\* The first write: upsert of the found row, or insert of a new one.
WritePattern(w, out) ==
  /\ call[w].pc = "write"
  /\ LET c == call[w]
         r == IF c.writeKind = "upsert" THEN DbUpsert(learned, profiles, c.db, out)
              ELSE DbInsert(learned, profiles, c.db, out)
     IN /\ learned' = r.table
        /\ call' = [call EXCEPT ![w] = AfterWrite(c, r.error)]
  /\ lastIssued' = w
  /\ UNCHANGED <<profiles, globals, threshold, started, lastSearch, lastStats>>

\* save_user_profile: upsert on_conflict=email; the result is not looked at.
SaveUserProfile(prof, email, data, out) ==
  IF out = "ok" /\ email \in DOMAIN prof THEN [prof EXCEPT ![email] = data] ELSE prof

\* The self-heal: save_user_profile(user_email, {"personal": {"email": ...}}).
HealProfile(w, out) ==
  /\ call[w].pc = "heal"
  /\ profiles' = SaveUserProfile(profiles, call[w].db.user_email, "stub", out)
  /\ call' = [call EXCEPT ![w].pc = "retry",
                          ![w].profileWrites = call[w].profileWrites + 1]
  /\ UNCHANGED <<learned, globals, threshold, started, lastIssued, lastSearch, lastStats>>

\* Mutant of AfterRetry: a foreign key error of the retry heals again.
AfterRetry_HealAgain(c, error) ==
  IF IsForeignKeyError(error)
  THEN [c EXCEPT !.pc = "heal", !.error = error,
                 !.patternWrites = c.patternWrites + 1]
  ELSE [Return(c, error) EXCEPT !.patternWrites = c.patternWrites + 1]

\* After the retried write: return, whatever the result.
AfterRetry(c, error) ==
  [Return(c, error) EXCEPT !.patternWrites = c.patternWrites + 1]

\* The retry: upsert(db_data, on_conflict="id").
RetryWrite(w, out) ==
  /\ call[w].pc = "retry"
  /\ LET c == call[w]
         r == DbUpsert(learned, profiles, c.db, out)
     IN /\ learned' = r.table
        /\ call' = [call EXCEPT ![w] = AfterRetry(c, r.error)]
  /\ lastIssued' = w
  /\ UNCHANGED <<profiles, globals, threshold, started, lastSearch, lastStats>>

\* POST /api/user-data/save: the user's full profile.
SaveUserData(email, out) ==
  /\ profiles' = SaveUserProfile(profiles, email, "full", out)
  /\ profiles' # profiles
  /\ UNCHANGED <<learned, globals, threshold, call, started, lastIssued, lastSearch, lastStats>>

\* ----------------------------------------------------------------- predict

\* Mutant of PredictStart: the predictor is asked whatever pattern memory
\* answered, and its result is what the request returns.
PredictStart_SkipMemory(w, question, email, ai, globOut) ==
  /\ CanStart(w)
  /\ LET memory_match == SearchPattern(question, None, learned, globals,
                                       threshold, "ok", globOut)
         c0 == [NewCall("predict", question, email) EXCEPT
                  !.memory_match = memory_match]
         intent == FixIntent(ai.intent)
         c1 == [c0 EXCEPT !.aiCalled = TRUE,
                          !.response = [source |-> "ai", answer |-> ai.answer,
                                        confidence |-> ai.confidence,
                                        intent |-> intent]]
     IN call' = [call EXCEPT ![w] =
          IF ai.raised
          THEN [c0 EXCEPT !.pc = "done", !.aiCalled = TRUE,
                          !.response = [source |-> "error"]]
          ELSE IF ShouldLearn(ai.answer, ai.confidence)
               THEN SavePattern(c1, BuildPattern(question, ai.answer, intent,
                                                 ai.confidence), email)
               ELSE [c1 EXCEPT !.pc = "done"]]
  /\ started' = started + 1
  /\ UNCHANGED <<learned, profiles, globals, threshold, lastIssued, lastSearch, lastStats>>

\* POST /predict: pattern memory, else the predictor, then the learner.
PredictStart(w, question, email, ai, globOut) ==
  /\ CanStart(w)
  /\ LET memory_match == SearchPattern(question, None, learned, globals,
                                       threshold, "ok", globOut)
         answer == IF memory_match = <<>> THEN <<>> ELSE MemoryAnswer(memory_match[1])
         c0 == [NewCall("predict", question, email) EXCEPT
                  !.memory_match = memory_match,
                  !.privateHit =
                     /\ Truthy(email)
                     /\ \E k \in 1..Len(learned) :
                          /\ learned[k].user_email = email
                          /\ learned[k].question_pattern = Normalize(question)
                          /\ MemoryAnswer(ToExtension(learned[k])) # <<>>]
         intent == FixIntent(ai.intent)
         c1 == [c0 EXCEPT !.aiCalled = TRUE,
                          !.response = [source |-> "ai", answer |-> ai.answer,
                                        confidence |-> ai.confidence,
                                        intent |-> intent]]
     IN call' = [call EXCEPT ![w] =
          IF answer # <<>>
          THEN [c0 EXCEPT !.pc = "done",
                          !.response = [source |-> "memory", answer |-> answer,
                                        intent |-> memory_match[1].intent]]
          ELSE IF ai.raised
               THEN [c0 EXCEPT !.pc = "done", !.aiCalled = TRUE,
                               !.response = [source |-> "error"]]
               ELSE IF ShouldLearn(ai.answer, ai.confidence)
                    THEN SavePattern(c1, BuildPattern(question, ai.answer, intent,
                                                      ai.confidence), email)
                    ELSE [c1 EXCEPT !.pc = "done"]]
  /\ started' = started + 1
  /\ UNCHANGED <<learned, profiles, globals, threshold, lastIssued, lastSearch, lastStats>>

\* ------------------------------------------------------------------ search

\* Mutant of Search: a hit stamps the matched private row's last_used.
Search_TouchLastUsed(question, email, privOut, globOut) ==
  LET result == SearchPattern(question, email, learned, globals, threshold,
                              privOut, globOut)
  IN /\ lastSearch' = [ran |-> TRUE, question |-> question, user_email |-> email,
                       privOut |-> privOut, globOut |-> globOut, result |-> result]
     /\ learned' = [k \in 1..Len(learned) |->
                      IF result # <<>> /\ learned[k].id = result[1].id
                      THEN [learned[k] EXCEPT !.last_used = started + 1]
                      ELSE learned[k]]
     /\ UNCHANGED <<profiles, globals, threshold, call, started, lastIssued, lastStats>>

\* search_pattern(question, user_email), its two reads answered as given.
Search(question, email, privOut, globOut) ==
  /\ lastSearch' = [ran |-> TRUE, question |-> question, user_email |-> email,
                    privOut |-> privOut, globOut |-> globOut,
                    result |-> SearchPattern(question, email, learned, globals,
                                             threshold, privOut, globOut)]
  /\ UNCHANGED <<learned, profiles, globals, threshold, call, started, lastIssued, lastStats>>

\* get_user_patterns(email): `result.data or []`.
GetUserPatterns(tbl, email, out) ==
  IF out = "ok" THEN SelectByOwner(tbl, email) ELSE <<>>

\* ------------------------------------------------------------------- stats

\* What the database service sends back for one GET: the request raises
\* (store unreachable), or an HTTP response with a status, a Content-Range
\* header ("absent", "star" for an unknown total as in 0-1/*, or "total") and
\* a JSON body.  An error response carries a JSON error object and no
\* Content-Range.
ErrorBody == <<[key |-> "code"], [key |-> "message"]>>

FailReplies ==
  { [raised |-> TRUE, status |-> 0, range |-> "absent", total |-> 0, body |-> <<>>],
    [raised |-> FALSE, status |-> 500, range |-> "absent", total |-> 0,
     body |-> ErrorBody] }

OkReplies(rows) ==
  { [raised |-> FALSE, status |-> 200, range |-> rg, total |-> Len(rows),
     body |-> rows] : rg \in {"absent", "star", "total"} }

StoreReplies(rows) == FailReplies \cup OkReplies(rows)

\* Mutant of HandleResponse: the status is not looked at, the body is data.
HandleResponse_IgnoreStatus(reply) ==
  [hasData |-> TRUE, data |-> reply.body, error |-> NoError,
   hasCount |-> reply.range = "total", count |-> reply.total]

\* _handle_response: count from Content-Range when its total parses as an
\* int; data for 200/201, None for 204, else the body is the error.
HandleResponse(reply) ==
  [hasData |-> reply.status \in {200, 201},
   data |-> IF reply.status \in {200, 201} THEN reply.body ELSE <<>>,
   error |-> IF reply.status \in {200, 201, 204} THEN NoError ELSE "server error",
   hasCount |-> reply.range = "total",
   count |-> IF reply.range = "total" THEN reply.total ELSE 0]

\* execute(): an exception of the request becomes SupabaseResponse(error=...).
Execute(reply) ==
  IF reply.raised
  THEN [hasData |-> FALSE, data |-> <<>>, error |-> NetError,
        hasCount |-> FALSE, count |-> 0]
  ELSE HandleResponse(reply)

\* `result.data or []`
DataOrEmpty(result) == IF result.hasData THEN result.data ELSE <<>>

\* `r.count if r.count is not None else (len(r.data) if r.data else 0)`
CountOf(result) ==
  IF result.hasCount THEN result.count
  ELSE IF result.hasData /\ result.data # <<>> THEN Len(result.data) ELSE 0

\* p.get('intent', 'unknown')
IntentOf(p) == IF "intent" \in DOMAIN p THEN p.intent ELSE Unknown

\* intent_breakdown of get_stats, as the set of (intent, count) entries.
IntentBreakdown(patterns) ==
  { <<i, Cardinality({k \in 1..Len(patterns) : IntentOf(patterns[k]) = i})>> :
      i \in {IntentOf(patterns[k]) : k \in 1..Len(patterns)} }

\* get_stats()
GetStatsResult(reply) ==
  LET patterns == DataOrEmpty(Execute(reply))
  IN [totalGlobalPatterns |-> Len(patterns),
      intentBreakdown |-> IntentBreakdown(patterns)]

\* get_total_users(): the total query, then the last-24h query.
GetTotalUsersResult(total_reply, recent_reply) ==
  [total |-> CountOf(Execute(total_reply)),
   recent_24h |-> CountOf(Execute(recent_reply))]

\* get_feedback_stats(): the total query, then the last-24h query.
GetFeedbackStatsResult(total_reply, recent_reply) ==
  [total |-> CountOf(Execute(total_reply)),
   recent_24h |-> CountOf(Execute(recent_reply))]

OwnerOrder == <<<<"a">>, <<"b">>>>

\* The rows of user_profiles, as select("email") returns them.
ProfileRows(prof) ==
  LET Present(o) == prof[o] # "absent"
      present == SelectSeq(OwnerOrder, Present)
  IN [k \in 1..Len(present) |-> [email |-> present[k]]]

\* The rows of feedbacks, as select("id") returns them.
FeedbackRows(n) == [k \in 1..n |-> [id |-> k]]

\* The rows of a table that are younger than 24 hours: any number of them.
Prefixes(rows) == { SubSeq(rows, 1, n) : n \in 0..Len(rows) }

\* GET /api/patterns/stats
GetStats(reply) ==
  /\ lastStats' = [ran |-> TRUE, op |-> "get_stats", replies |-> <<reply>>,
                   result |-> GetStatsResult(reply)]
  /\ UNCHANGED <<learned, profiles, globals, threshold, call, started, lastIssued,
                 lastSearch>>

\* get_total_users, behind the user statistics endpoint.
GetTotalUsers(total_reply, recent_reply) ==
  /\ lastStats' = [ran |-> TRUE, op |-> "get_total_users",
                   replies |-> <<total_reply, recent_reply>>,
                   result |-> GetTotalUsersResult(total_reply, recent_reply)]
  /\ UNCHANGED <<learned, profiles, globals, threshold, call, started, lastIssued,
                 lastSearch>>

\* get_feedback_stats, behind the feedback statistics endpoint.
GetFeedbackStats(total_reply, recent_reply) ==
  /\ lastStats' = [ran |-> TRUE, op |-> "get_feedback_stats",
                   replies |-> <<total_reply, recent_reply>>,
                   result |-> GetFeedbackStatsResult(total_reply, recent_reply)]
  /\ UNCHANGED <<learned, profiles, globals, threshold, call, started, lastIssued,
                 lastSearch>>

\* read_patterns(): `if result.error: return []`, else `result.data or []`.
ReadPatternsResult(reply) ==
  LET result == Execute(reply)
  IN IF result.error # NoError THEN <<>> ELSE DataOrEmpty(result)

\* GET /api/patterns/sync
SyncPatterns(reply) ==
  /\ lastStats' = [ran |-> TRUE, op |-> "read_patterns", replies |-> <<reply>>,
                   result |-> [patterns |-> ReadPatternsResult(reply),
                               total |-> Len(ReadPatternsResult(reply))]]
  /\ UNCHANGED <<learned, profiles, globals, threshold, call, started, lastIssued,
                 lastSearch>>

\* get_user_patterns(email) on the store's reply: `result.data or []`.
GetUserPatternsResult(reply) == DataOrEmpty(Execute(reply))

\* GET /api/patterns/user/{email}
GetUserPatternsEndpoint(email, reply) ==
  /\ lastStats' = [ran |-> TRUE, op |-> "get_user_patterns", replies |-> <<reply>>,
                   result |-> [patterns |-> GetUserPatternsResult(reply),
                               total |-> Len(GetUserPatternsResult(reply))]]
  /\ UNCHANGED <<learned, profiles, globals, threshold, call, started, lastIssued,
                 lastSearch>>

\* --------------------------------------------------------- specifications

\* Requests that start: uploads of `ups` and predicts of `qs` answered by
\* `ais`, by the workers `ws` for the email arguments `ems`.
Starts(ws, ups, qs, ais, ems, outs) ==
  \/ \E w \in ws, p \in ups, e \in ems : UploadStart(w, p, e)
  \/ \E w \in ws, q \in qs, e \in ems, ai \in ais, g \in outs :
       PredictStart(w, q, e, ai, g)

\* The store round trips of the calls in flight, answered with `outs`.
StoreSteps(outs) ==
  \/ \E w \in Workers, out \in outs : LookupExisting(w, out)
  \/ \E w \in Workers, out \in outs : WritePattern(w, out)
  \/ \E w \in Workers, out \in outs : HealProfile(w, out)
  \/ \E w \in Workers, out \in outs : RetryWrite(w, out)
  \/ \E e \in Owners, out \in outs : SaveUserData(e, out)

\* Inputs of the concurrent specifications.
ConcPatterns ==
  { p \in UploadPatterns : p.questionPattern = <<"Q">> /\ p.answerMappings # <<>> }

ConcAi == { ai \in AiOutcomes : ai.confidence = 70 /\ ai.answer # <<>> }

ConcEmails == {<<"a">>, <<"b">>, None}

\* Concurrent requests against a store whose requests may fail in transit.
Next ==
  \/ Starts(Workers, ConcPatterns, {<<"q", " ">>}, ConcAi, ConcEmails, Outcomes)
  \/ StoreSteps(Outcomes)

Spec == Init /\ [][Next]_vars

\* Concurrent requests against a store that answers every request.
NextConc ==
  \/ Starts(Workers, ConcPatterns, {<<"q", " ">>}, ConcAi, ConcEmails, {"ok"})
  \/ StoreSteps({"ok"})

SpecConc == Init /\ [][NextConc]_vars

\* One request at a time (a single worker) against a store that answers
\* every request.
NextSeq ==
  \/ Starts({1}, UploadPatterns, RawQuestions, AiOutcomes, EmailArgs, {"ok"})
  \/ StoreSteps({"ok"})

SpecSeq == Init /\ [][NextSeq]_vars

\* The matcher as a function of the store: Init draws the content of the two
\* tables and the configured threshold, and one search_pattern call, whose
\* reads are answered or fail, is applied to it.
MatchQueries ==
  { <<"a", " ", "b", " ", "c", " ", "d", " ", "e", " ", "f">>,
    <<"a", " ", "b">>,
    <<" ", "A", "\t", " ", "B", " ">>,
    <<"b", " ", "a">>,
    <<"c">>,
    <<" ">> }

MatchGlobalRows ==
  { GlobalRow(<<"g", "1">>, <<"a", " ", "b", " ", "c", " ", "x", " ", "y", " ", "z">>,
              <<"i">>, <<Mapping(<<"1">>, <<>>)>>),
    GlobalRow(<<"g", "2">>, <<"a", " ", "b", " ", "x", " ", "y", " ", "z", " ", "w">>,
              <<"i">>, <<Mapping(<<"2">>, <<>>)>>),
    GlobalRow(<<"g", "3">>, <<"A", " ", "b">>, <<"j">>, <<Mapping(<<"3">>, <<>>)>>),
    GlobalRow(<<"g", "4">>, <<>>, <<"j">>, <<Mapping(<<"4">>, <<>>)>>),
    GlobalRow(<<"g", "5">>, <<"a", " ", "b", " ", "c", " ", "d", " ", "e", " ", "f">>,
              <<"i">>, <<Mapping(<<"5">>, <<>>)>>) }

\* Rows save_pattern has written for the owners.
MatchPrivateRows ==
  { Stamped(DbData([questionPattern |-> <<"a", " ", "b", " ", "c", " ", "d", " ", "e", " ", "f">>,
            intent |-> <<"i">>, confidence |-> 95,
            answerMappings |-> <<Mapping(<<"p">>, <<<<"p">>>>)>>], <<"a">>), 1),
    Stamped(DbData([questionPattern |-> <<"A", " ", "b", " ">>,
            intent |-> <<"j">>, confidence |-> 70,
            answerMappings |-> <<Mapping(<<"q">>, <<<<"q">>>>)>>], <<"a">>), 1),
    Stamped(DbData([questionPattern |-> <<"a", " ", "b">>,
            intent |-> <<"i">>, confidence |-> 70,
            answerMappings |-> <<Mapping(<<"r">>, <<<<"r">>>>)>>], <<"b">>), 1) }

\* The tables of at most n distinct rows of `rows`, in every order.
RECURSIVE TablesOf(_, _)
TablesOf(rows, n) ==
  IF n = 0 THEN {<<>>}
  ELSE LET shorter == TablesOf(rows, n - 1)
       IN shorter \cup
          { Append(x[1], x[2]) :
              x \in { y \in shorter \X rows :
                        \A k \in 1..Len(y[1]) : y[1][k] # y[2] } }

Thresholds == {34, 50, 100}

InitMatch ==
  /\ learned \in TablesOf(MatchPrivateRows, MaxPrivate)
  /\ profiles = [o \in Owners |-> "full"]
  /\ globals \in TablesOf(MatchGlobalRows, MaxGlobal)
  /\ threshold \in Thresholds
  /\ call = [w \in Workers |-> IdleCall]
  /\ started = 0
  /\ lastIssued = 0
  /\ lastSearch = NoSearch
  /\ lastStats = NoStats

NextMatch ==
  \E q \in MatchQueries, e \in EmailArgs, po \in Outcomes, go \in Outcomes :
     ~lastSearch.ran /\ Search(q, e, po, go)

SpecMatch == InitMatch /\ [][NextMatch]_vars

\* The statistics operations as functions of the store and of its replies:
\* Init draws the tables, one statistics call is applied.
InitStats ==
  /\ learned = <<>>
  /\ profiles \in [Owners -> {"absent", "stub", "full"}]
  /\ globals \in TablesOf(MatchGlobalRows, MaxGlobal)
  /\ threshold = 50
  /\ call = [w \in Workers |-> IdleCall]
  /\ started = 0
  /\ lastIssued = 0
  /\ lastSearch = NoSearch
  /\ lastStats = NoStats

NextStats ==
  /\ ~lastStats.ran
  /\ \/ \E reply \in StoreReplies(globals) : GetStats(reply)
     \/ \E r1 \in StoreReplies(ProfileRows(profiles)) :
          \E recent \in Prefixes(ProfileRows(profiles)) :
            \E r2 \in StoreReplies(recent) : GetTotalUsers(r1, r2)
     \/ \E n \in 0..MaxFeedback :
          \E r1 \in StoreReplies(FeedbackRows(n)) :
            \E recent \in Prefixes(FeedbackRows(n)) :
              \E r2 \in StoreReplies(recent) : GetFeedbackStats(r1, r2)

SpecStats == InitStats /\ [][NextStats]_vars

\* predict against a global table that holds what the service did not write:
\* a row without an intent, a row without answer mappings, a row whose
\* mapping has no variants.  The store's requests may fail in transit.
PredictGlobalRows ==
  { GlobalRow(<<"g", "1">>, <<"r">>, <<"i">>, <<Mapping(<<"w">>, <<>>)>>),
    GlobalRow(<<"g", "2">>, <<"q">>, <<>>, <<Mapping(<<"v">>, <<<<"v">>>>)>>),
    GlobalRow(<<"g", "3">>, <<"q">>, <<"j">>, <<>>) }

InitPredict ==
  /\ learned = <<>>
  /\ profiles = [o \in Owners |-> "absent"]
  /\ globals \in TablesOf(PredictGlobalRows, MaxGlobal)
  /\ threshold = 50
  /\ call = [w \in Workers |-> IdleCall]
  /\ started = 0
  /\ lastIssued = 0
  /\ lastSearch = NoSearch
  /\ lastStats = NoStats

PredictQuestions == {<<"Q">>, <<"r">>}

PredictEmails == {<<"a">>, <<>>, None}

NextPredict ==
  \/ \E q \in PredictQuestions, e \in PredictEmails, ai \in AiOutcomes,
        g \in Outcomes : PredictStart(1, q, e, ai, g)
  \/ StoreSteps(Outcomes)

SpecPredict == InitPredict /\ [][NextPredict]_vars

\* One read between the steps of uploads: search_pattern, read_patterns,
\* get_stats or get_user_patterns runs at any point of the uploads of one
\* worker, and the store's requests may fail in transit.
ReadQueries == {<<"Q">>, <<"r">>}

ReadEmails == {<<"a">>, None}

NoReadYet == ~lastSearch.ran /\ ~lastStats.ran

NextReads ==
  \/ \E p \in ConcPatterns : UploadStart(1, p, <<"a">>)
  \/ StoreSteps(Outcomes)
  \/ /\ NoReadYet
     /\ \/ \E q \in ReadQueries, e \in ReadEmails, po \in Outcomes, go \in Outcomes :
             Search(q, e, po, go)
        \/ \E reply \in StoreReplies(globals) : GetStats(reply)
        \/ \E reply \in StoreReplies(globals) : SyncPatterns(reply)
        \/ \E e \in Owners :
             \E reply \in StoreReplies(SelectByOwner(learned, e)) :
               GetUserPatternsEndpoint(e, reply)

SpecReads == Init /\ [][NextReads]_vars

\* ------------------------------------------------------------------ claims

\* The rows of learned_patterns for one (owner, normalized question, intent).
RowsOfTriple(email, normalized_question, intent) ==
  LET Test(r) == /\ r.user_email = email
                 /\ r.question_pattern = normalized_question
                 /\ r.intent = intent
  IN SelectSeq(learned, Test)

\* A call of save_pattern for an owner has returned.
SaveReturned(c) == c.pc = "done" /\ c.saveCalls = 1 /\ Truthy(c.email)

\* C1: when save_pattern calls run one after the other against a store that
\* answers, every call for an owner returns success and leaves exactly one row
\* for its (owner, normalized question, intent), carrying that call's
\* confidence and answerMappings; so a second call for the same triple, with
\* the same or with other values, leaves one row with the second call's values.
C1_SequentialUpsert ==
  \A w \in Workers :
    LET c == call[w]
        rows == RowsOfTriple(c.email, Normalize(c.pattern.questionPattern),
                             c.pattern.intent)
    IN SaveReturned(c) =>
         /\ c.ret = "True"
         /\ Len(rows) = 1
         /\ rows[1].confidence = c.pattern.confidence
         /\ rows[1].answer_mappings = c.pattern.answerMappings

\* C1 witness: a second call has found the row the first call wrote under the
\* same deterministic id and has replaced it.
C1_Witness ==
  \E w \in Workers :
    LET c == call[w]
    IN /\ SaveReturned(c) /\ c.ret = "True" /\ started = 2
       /\ c.writeKind = "upsert"
       /\ c.db.id = PatternId(c.email, Normalize(c.pattern.questionPattern),
                              c.pattern.intent)
       /\ Len(learned) = 1

\* C2: when two save_pattern calls for the same (owner, normalized question,
\* intent) have both returned, the store holds exactly one row for the triple
\* and it carries the fields of the call whose write was issued later.
C2_LaterWriteWins ==
  \A w1 \in Workers, w2 \in Workers :
    LET c1 == call[w1]
        c2 == call[w2]
        rows == RowsOfTriple(c2.email, Normalize(c2.pattern.questionPattern),
                             c2.pattern.intent)
    IN ( /\ w1 # w2
         /\ SaveReturned(c1) /\ SaveReturned(c2)
         /\ c1.email = c2.email
         /\ Normalize(c1.pattern.questionPattern) = Normalize(c2.pattern.questionPattern)
         /\ c1.pattern.intent = c2.pattern.intent
         /\ lastIssued = w2 )
       => /\ Len(rows) = 1
          /\ rows[1].confidence = c2.pattern.confidence
          /\ rows[1].answer_mappings = c2.pattern.answerMappings

\* C3: learned_patterns never holds two rows for the same owner and
\* normalized question.
C3_OneRowPerOwnerQuestion ==
  \A i \in 1..Len(learned), j \in 1..Len(learned) :
    i # j => ~ ( /\ learned[i].user_email = learned[j].user_email
                 /\ learned[i].question_pattern = learned[j].question_pattern )

\* C4: within one save_pattern call a stub profile is written only after a
\* foreign key failure of the first write, exactly once, and is followed by
\* exactly one retried write; a failed retry returns failure; a call never
\* issues more than two pattern writes and one profile write.
C4_SelfHealBound ==
  \A w \in Workers :
    LET c == call[w]
    IN /\ c.patternWrites <= 2
       /\ c.profileWrites <= 1
       /\ c.profileWrites = 1 => IsForeignKeyError(c.firstError)
       /\ c.pc = "heal" => c.patternWrites = 1 /\ c.profileWrites = 0
       /\ c.pc = "retry" => c.patternWrites = 1 /\ c.profileWrites = 1
       /\ (c.pc = "done" /\ IsForeignKeyError(c.firstError))
            => /\ c.patternWrites = 2
               /\ c.profileWrites = 1
               /\ c.error # NoError => c.ret = "False"
       /\ (c.pc = "done" /\ ~IsForeignKeyError(c.firstError))
            => c.patternWrites <= 1 /\ c.profileWrites = 0

\* C4 witness: the first write failed on the foreign key, the stub profile
\* was written, the retried write failed too and the call returned failure.
C4_Witness ==
  \E w \in Workers :
    LET c == call[w]
    IN /\ c.pc = "done" /\ IsForeignKeyError(c.firstError)
       /\ c.error # NoError /\ c.ret = "False"
       /\ c.patternWrites = 2 /\ c.profileWrites = 1

\* C5: a predict request that missed pattern memory and got a prediction
\* calls save_pattern exactly once when the answer is non-empty and the
\* confidence is at least 0.70, and not at all otherwise.
C5_LearnGate ==
  \A w \in Workers :
    LET c == call[w]
    IN (c.op = "predict" /\ c.response.source = "ai")
       => c.saveCalls = IF c.response.answer # <<>> /\ c.response.confidence >= 70
                        THEN 1 ELSE 0

\* C5 witness: a prediction with a non-empty answer at confidence 0.70 was
\* handed to save_pattern once.
C5_Witness ==
  \E w \in Workers :
    LET c == call[w]
    IN /\ c.op = "predict" /\ c.response.source = "ai"
       /\ c.response.confidence = 70 /\ c.response.answer # <<>>
       /\ c.saveCalls = 1

\* C6: a predict request of an owner who has a private pattern for the
\* normalized question, with a non-empty answer, is answered from pattern
\* memory without a call of the predictor.
C6_PrivateMemoryFirst ==
  \A w \in Workers :
    LET c == call[w]
    IN (c.op = "predict" /\ c.privateHit)
       => ~c.aiCalled /\ c.response.source = "memory"

\* The owner's private rows whose text equals the normalized query.
PrivateExact(question, email) ==
  { k \in 1..Len(learned) :
      /\ learned[k].user_email = email
      /\ Normalize(learned[k].question_pattern) = Normalize(question) }

GlobalExact(question) ==
  { k \in 1..Len(globals) :
      Normalize(globals[k].question_pattern) = Normalize(question) }

\* The word overlap of the query and a stored text meets the threshold:
\* |shared| / max(|query words|, |stored words|) >= threshold / 100,
\* both word sets non-empty.
OverlapQualifies(question, text) ==
  LET qw == WordSet(Normalize(question))
      pw == WordSet(Normalize(text))
      larger == IF Cardinality(qw) > Cardinality(pw) THEN Cardinality(qw)
                ELSE Cardinality(pw)
  IN /\ qw # {} /\ pw # {}
     /\ 100 * Cardinality(qw \cap pw) >= threshold * larger

GlobalFuzzy(question) ==
  { k \in 1..Len(globals) : OverlapQualifies(question, globals[k].question_pattern) }

\* C7: when the owner's private read is answered and one of the owner's
\* private patterns equals the normalized query, search_pattern returns that
\* owner's private pattern even though a global pattern matches too (exactly
\* or by word overlap), whatever the global table holds and in whatever order.
C7_PrivatePrecedence ==
  LET s == lastSearch
  IN ( /\ s.ran /\ s.privOut = "ok" /\ Truthy(s.user_email)
       /\ PrivateExact(s.question, s.user_email) # {}
       /\ GlobalExact(s.question) \cup GlobalFuzzy(s.question) # {} )
     => /\ s.result # <<>>
        /\ \E k \in PrivateExact(s.question, s.user_email) :
             s.result[1] = ToExtension(learned[k])

\* C7 witness: a search with both reads answered, a private and a global
\* pattern both equal to the query, returned the private one.
C7_Witness ==
  LET s == lastSearch
  IN /\ s.ran /\ s.privOut = "ok" /\ s.globOut = "ok" /\ Truthy(s.user_email)
     /\ PrivateExact(s.question, s.user_email) # {}
     /\ GlobalExact(s.question) # {}
     /\ s.result # <<>>
     /\ s.result[1].id \in {learned[k].id : k \in 1..Len(learned)}

\* C8: when no private pattern of the owner and no global pattern equals the
\* normalized query and the global read is answered, search_pattern returns
\* the first global pattern in table order whose word overlap meets the
\* threshold (the threshold itself qualifies; a side without words does not),
\* and None when no global pattern qualifies.
C8_FirstFuzzyMatch ==
  LET s == lastSearch
      hits == GlobalFuzzy(s.question)
  IN ( /\ s.ran /\ s.globOut = "ok"
       /\ PrivateExact(s.question, s.user_email) = {}
       /\ GlobalExact(s.question) = {} )
     => IF hits = {} THEN s.result = <<>>
        ELSE /\ s.result # <<>>
             /\ \E k \in hits :
                  /\ \A j \in hits : k <= j
                  /\ s.result[1] = ToExtension(globals[k])

\* C8 witness: at threshold 0.5 the query "a b c d e f" skipped a pattern
\* sharing 2 of 6 words and returned the next one, which shares 3 of 6.
C8_Witness ==
  LET s == lastSearch
  IN /\ s.ran /\ s.globOut = "ok" /\ threshold = 50
     /\ s.question = <<"a", " ", "b", " ", "c", " ", "d", " ", "e", " ", "f">>
     /\ Len(globals) = 2
     /\ globals[1].id = <<"g", "2">> /\ globals[2].id = <<"g", "1">>
     /\ Cardinality(WordSet(Normalize(s.question))
                      \cap WordSet(Normalize(globals[2].question_pattern))) = 3
     /\ s.result # <<>> /\ s.result[1].id = <<"g", "1">>

\* Query texts: every casing and surrounding whitespace of "q" and "r".
SearchQueries ==
  RawQuestions \cup {<<"q">>, <<" ", "Q", "\t">>, <<"\t", "q">>, <<"R", " ">>}

\* Two texts are the same once lowercased and trimmed.
SameNormalization(q, p) == Strip(Lower(q)) = Strip(Lower(p))

\* C9: after an upload for an owner has succeeded (requests one at a time,
\* reads answered), search_pattern for that owner, for every query with the
\* same normalization as the uploaded question, returns the owner's stored
\* pattern with the uploaded answerMappings.
C9_UploadThenSearch ==
  \A w \in Workers :
    LET c == call[w]
    IN (c.op = "upload" /\ c.pc = "done" /\ c.ret = "True")
       => \A q \in SearchQueries :
            SameNormalization(q, c.pattern.questionPattern)
            => LET r == SearchPattern(q, c.email, learned, globals, threshold,
                                      "ok", "ok")
               IN /\ r # <<>>
                  /\ r[1].answerMappings = c.pattern.answerMappings
                  /\ \E k \in 1..Len(learned) :
                       /\ learned[k].user_email = c.email
                       /\ r[1] = ToExtension(learned[k])

\* C9 witness: the pattern uploaded as "q " is found by the query " Q<tab>"
\* and its first mapping's first variant is the uploaded one.
C9_Witness ==
  \E w \in Workers :
    LET c == call[w]
        r == SearchPattern(<<" ", "Q", "\t">>, c.email, learned, globals,
                           threshold, "ok", "ok")
    IN /\ c.op = "upload" /\ c.pc = "done" /\ c.ret = "True"
       /\ c.pattern.questionPattern = <<"q", " ">>
       /\ c.pattern.answerMappings # <<>>
       /\ r # <<>>
       /\ MemoryAnswer(r[1]) = c.pattern.answerMappings[1].variants[1]

\* C10: a step that enters save_pattern without an owner (email absent or
\* empty) returns failure at once: no lookup, no pattern write, no profile
\* write is issued and both tables are left as they were.
C10_NoOwnerNoStore ==
  [][\A w \in Workers :
       ( /\ call'[w] # call[w]
         /\ call'[w].saveCalls = 1
         /\ ~Truthy(call'[w].email) )
       => /\ call'[w].pc = "done"
          /\ call'[w].ret = "False"
          /\ call'[w].lookups = 0
          /\ call'[w].patternWrites = 0
          /\ call'[w].profileWrites = 0
          /\ learned' = learned
          /\ profiles' = profiles]_vars

\* C10 witness: an upload without an email was rejected.
C10_Witness ==
  \E w \in Workers :
    LET c == call[w]
    IN /\ c.op = "upload" /\ c.saveCalls = 1 /\ ~Truthy(c.email)
       /\ c.pc = "done" /\ c.ret = "False"
       /\ c.response = UploadResponse(FALSE)

\* C11: a predict request that missed pattern memory, got a prediction and
\* handed it to save_pattern answers with that prediction (the answer,
\* confidence and intent the learned pattern was built from), whether
\* save_pattern saved it, rejected it for a missing owner or failed on the
\* store; the failure never replaces the response.
C11_LearningFailureSwallowed ==
  \A w \in Workers :
    LET c == call[w]
    IN (c.op = "predict" /\ c.saveCalls = 1 /\ c.pc = "done")
       => /\ c.response.source = "ai"
          /\ c.response.answer # <<>>
          /\ c.response.confidence >= 70
          /\ Truthy(c.email)
               => c.pattern = BuildPattern(c.question, c.response.answer,
                                           c.response.intent, c.response.confidence)

\* C11 witness: the store refused the learner's write and predict still
\* answered with the prediction.
C11_Witness ==
  \E w \in Workers :
    LET c == call[w]
    IN /\ c.op = "predict" /\ c.saveCalls = 1 /\ c.pc = "done"
       /\ c.ret = "False" /\ c.error # NoError
       /\ c.response.source = "ai" /\ c.response.answer # <<>>

\* C12: every response predict returns, from pattern memory or from the
\* predictor, carries an intent that is neither None nor empty.
C12_IntentNeverEmpty ==
  \A w \in Workers :
    LET c == call[w]
    IN (c.op = "predict" /\ c.pc = "done" /\ c.response.source \in {"memory", "ai"})
       => Truthy(c.response.intent)

\* C13: every row of learned_patterns has a non-empty answer_mappings.
C13_MappingsNeverEmpty ==
  \A k \in 1..Len(learned) : learned[k].answer_mappings # <<>>

\* A reply of a store that is unreachable or answers with an error.
Failing(reply) == reply.raised \/ reply.status \notin {200, 201, 204}

\* C14: when every request of a statistics call fails (the store is
\* unreachable or answers with an error) get_stats returns
\* {totalGlobalPatterns: 0, intentBreakdown: {}} and get_total_users and
\* get_feedback_stats return total 0 and recent_24h 0.
C14_StatsDegradeToZero ==
  LET st == lastStats
  IN (st.ran /\ \A k \in 1..Len(st.replies) : Failing(st.replies[k]))
     => IF st.op = "get_stats"
        THEN st.result = [totalGlobalPatterns |-> 0, intentBreakdown |-> {}]
        ELSE st.result = [total |-> 0, recent_24h |-> 0]

\* C14 witness: user_profiles holds rows, both count requests of
\* get_total_users failed (one raised, one got an error response) and the
\* result is zero.
C14_Witness ==
  LET st == lastStats
  IN /\ st.ran /\ st.op = "get_total_users"
     /\ \E o \in Owners : profiles[o] # "absent"
     /\ st.replies[1].raised /\ ~st.replies[2].raised /\ Failing(st.replies[2])
     /\ st.result = [total |-> 0, recent_24h |-> 0]

NormalizeInputs ==
  RawQuestions \cup SearchQueries \cup MatchQueries
    \cup {<<" ", " ", "Q">>, <<"\t", "A", " ", "\t">>}

C17_ExactBeforeFuzzy ==
  LET s == lastSearch
  IN (s.ran /\ s.globOut = "ok" /\ GlobalExact(s.question) # {})
     => /\ s.result # <<>>
        /\ Strip(Lower(s.result[1].questionPattern)) = Strip(Lower(s.question))

\* The identity function of the specification: "pattern_" and the digest of
\* owner:question:intent.
IdentityOf(owner, question, intent) ==
  <<"pattern_", "#">> \o owner \o <<":">> \o question \o <<":">> \o intent

C19_OtherErrorsSurface ==
  \A w \in Workers :
    LET c == call[w]
    IN (c.firstError # NoError /\ c.firstError # FkError)
       => /\ c.pc = "done"
          /\ c.ret = "False"
          /\ c.patternWrites = 1
          /\ c.profileWrites = 0

\* C19 witness: an insert was refused for a duplicate key and the call
\* returned failure.
C19_Witness ==
  \E w \in Workers :
    LET c == call[w]
    IN /\ c.firstError = DupError /\ c.pc = "done" /\ c.ret = "False"
       /\ c.patternWrites = 1 /\ c.profileWrites = 0

\* C20: once a full profile is stored for an owner, no step replaces it by
\* the stub.
C20_FullProfileKept ==
  [][\A o \in Owners : profiles[o] = "full" => profiles'[o] = "full"]_vars

\* The answer pattern memory gave the predict call c: none on a matcher miss
\* or when the matched pattern has no answer.
AnswerFromMemory(c) ==
  IF c.memory_match = <<>> THEN <<>> ELSE MemoryAnswer(c.memory_match[1])

\* C21: when the matcher returns a pattern with a non-empty answer, predict
\* returns that answer, the predictor is not called and no store request is
\* made; the predictor is called only on a matcher miss or when the matched
\* pattern has an empty answer.
C21_MemoryAnswerSkipsPredictor ==
  \A w \in Workers :
    LET c == call[w]
    IN c.op = "predict" =>
         /\ AnswerFromMemory(c) # <<>> =>
               /\ c.pc = "done"
               /\ c.response.source = "memory"
               /\ c.response.answer = AnswerFromMemory(c)
               /\ ~c.aiCalled
               /\ c.saveCalls = 0 /\ c.lookups = 0
               /\ c.patternWrites = 0 /\ c.profileWrites = 0
         /\ c.aiCalled => AnswerFromMemory(c) = <<>>

\* C21 witness: a predict call was answered from pattern memory, by the
\* canonical value of a matched global row.
C21_Witness ==
  \E w \in Workers :
    LET c == call[w]
    IN /\ c.op = "predict" /\ c.pc = "done"
       /\ c.memory_match # <<>>
       /\ c.response.source = "memory"
       /\ c.response.answer = <<"w">>
       /\ ~c.aiCalled

\* C22: a step of search_pattern, read_patterns, get_stats or
\* get_user_patterns, hit, miss or failed, leaves learned_patterns,
\* global_patterns and user_profiles as they were; a row's last_used changes
\* only in the step of a save_pattern write for that row which succeeds.
C22_ReadsLeaveStores ==
  [][/\ (lastSearch' # lastSearch \/ lastStats' # lastStats) =>
          /\ learned' = learned
          /\ globals' = globals
          /\ profiles' = profiles
     /\ \A k \in 1..Len(learned) :
          (k <= Len(learned') /\ learned'[k].last_used # learned[k].last_used) =>
             \E w \in Workers :
               /\ call[w].pc \in {"write", "retry"}
               /\ call[w].db.id = learned[k].id
               /\ call'[w].pc = "done"
               /\ call'[w].error = NoError
               /\ call'[w].ret = "True"
               /\ learned'[k].last_used = call[w].db.last_used]_vars

\* C22 witness: after the only upload wrote its row, a search by the owner
\* hit that row and the row still carries the upload's last_used.
C22_Witness ==
  /\ started = 1
  /\ lastSearch.ran
  /\ Truthy(lastSearch.user_email)
  /\ lastSearch.result # <<>>
  /\ \E k \in 1..Len(learned) :
       /\ learned[k].id = lastSearch.result[1].id
       /\ learned[k].last_used = 1

====
